---- MODULE Spec2Model ----
(***************************************************************************)
(* Hotel Room Reservation System (src/main.ts): the fixed 97-room layout,  *)
(* the travel-time metric, the two-phase allocator allocateRooms and the   *)
(* UI handlers (book, random occupancy, reset) that apply its result.      *)
(***************************************************************************)
EXTENDS Integers, Sequences, FiniteSets, TLC

VARIABLES
    rooms,            \* renderApp's state.rooms: the room collection (a sequence of Room)
    lastBooking,      \* renderApp's state.lastBooking: Null or <<BookingResult>>
    message,          \* renderApp's state.message: Null or <<string>>
    roomCountInput,   \* the value of the #room-count input, a sequence of characters
    bookings,         \* successful bookings since the last reset / random occupancy
    pc,               \* position of the allocator harness: "ui", "input", "called", "recalled", "walk", "measured"
    count,            \* the count argument handed to allocateRooms by the harness
    result,           \* the outcome of the harness's first allocateRooms call
    result2,          \* the outcome of the second call on the same collection
    given,            \* the room collection as it was handed to the first call
    walk,             \* the sequence handed to totalTravelTimeForRooms by the metric harness
    walkTime          \* what totalTravelTimeForRooms returned for walk

vars == <<rooms, lastBooking, message, roomCountInput, bookings,
          pc, count, result, result2, given, walk, walkTime>>

\* ---------------------------------------------------------------- values

\* null / a present value (BookingResult | null, string | null, number | NaN)
Null == <<>>
Some(v) == <<v>>

Abs(x) == IF x < 0 THEN -x ELSE x

\* ---------------------------------------------------------------- layout

FullFloors == 9
RoomsPerFloor == 10
topFloor == 10
TopFloorRooms == 7
TotalRooms == FullFloors * RoomsPerFloor + TopFloorRooms

\* buildHotelRooms(): floors 1-9 with rooms xx1-xx10, then floor 10 with 1001-1007
buildHotelRooms ==
    [k \in 1..TotalRooms |->
        IF k <= FullFloors * RoomsPerFloor
        THEN LET floor == ((k - 1) \div RoomsPerFloor) + 1
                 i == (k - 1) % RoomsPerFloor
             IN [id |-> floor * 100 + (i + 1), floor |-> floor,
                 indexOnFloor |-> i, status |-> "free"]
        ELSE LET i == k - FullFloors * RoomsPerFloor - 1
             IN [id |-> 1001 + i, floor |-> topFloor,
                 indexOnFloor |-> i, status |-> "free"]]

\* ---------------------------------------------------------------- metric

VERTICAL_UNIT == 2
HORIZONTAL_UNIT == 1
POSITIVE_INFINITY == 1000000

travelTimeBetween(a, b) ==
    LET vertical == Abs(a.floor - b.floor) * VERTICAL_UNIT
        horizontal == Abs(a.indexOnFloor - b.indexOnFloor) * HORIZONTAL_UNIT
    IN vertical + horizontal

\* the two nested loops of totalTravelTimeForRooms (i, j are 1-based here)
RECURSIVE pairLoop(_, _, _, _)
pairLoop(rs, i, j, best) ==
    IF i > Len(rs) THEN best
    ELSE IF j > Len(rs) THEN pairLoop(rs, i + 1, i + 2, best)
    ELSE LET t == travelTimeBetween(rs[i], rs[j])
         IN pairLoop(rs, i, j + 1, IF t < best THEN t ELSE best)

\* as totalTravelTimeForRooms, measuring from the first to the last room
totalTravelTimeForRooms_firstToLast(rs) ==
    IF Len(rs) <= 1 THEN 0
    ELSE travelTimeBetween(rs[1], rs[Len(rs)])

totalTravelTimeForRooms(rs) ==
    IF Len(rs) <= 1 THEN 0
    ELSE LET best == pairLoop(rs, 1, 2, POSITIVE_INFINITY)
         IN IF best = POSITIVE_INFINITY THEN 0 ELSE best

\* ---------------------------------------------------------------- sorting

\* the two comparators the allocator sorts with
byIndexOnFloor(a, b) == a.indexOnFloor - b.indexOnFloor

byFloorThenIndex(a, b) ==
    IF a.floor # b.floor THEN a.floor - b.floor
    ELSE a.indexOnFloor - b.indexOnFloor

compare(cmp, a, b) ==
    IF cmp = "byIndexOnFloor" THEN byIndexOnFloor(a, b) ELSE byFloorThenIndex(a, b)

\* Array.prototype.sort with a comparator (stable): the element at index i
\* lands behind every element that compares smaller and behind every earlier
\* element that compares equal
sort(rs, cmp) ==
    LET rank == SubSeq([i \in 1..Len(rs) |->
                    1 + Cardinality({j \in 1..Len(rs) :
                            \/ compare(cmp, rs[j], rs[i]) < 0
                            \/ compare(cmp, rs[j], rs[i]) = 0 /\ j < i})], 1, Len(rs))
    IN SubSeq([k \in 1..Len(rs) |-> rs[CHOOSE i \in 1..Len(rs) : rank[i] = k]],
              1, Len(rs))

\* ---------------------------------------------------------------- allocator

MaxCount == 5
PoolLimit == 20

\* as freeRoomsOf, taking every room that is not booked for free
freeRoomsOf_notBooked(rs) == SelectSeq(rs, LAMBDA r : r.status # "booked")

freeRoomsOf(rs) == SelectSeq(rs, LAMBDA r : r.status = "free")

\* as floorKeys, the floors taken from the last inserted to the first
floorKeys_lastFirst(freeRooms) ==
    LET firsts == SelectSeq([i \in 1..Len(freeRooms) |-> i],
                    LAMBDA i : \A j \in 1..(i - 1) :
                                    freeRooms[j].floor # freeRooms[i].floor)
    IN [k \in 1..Len(firsts) |-> freeRooms[firsts[Len(firsts) + 1 - k]].floor]

\* keys of the Map roomsByFloor, in insertion order: a floor is inserted when
\* its first free room is met
floorKeys(freeRooms) ==
    LET firsts == SelectSeq([i \in 1..Len(freeRooms) |-> i],
                    LAMBDA i : \A j \in 1..(i - 1) :
                                    freeRooms[j].floor # freeRooms[i].floor)
    IN [k \in 1..Len(firsts) |-> freeRooms[firsts[k]].floor]

\* roomsByFloor.get(floor)
roomsOfFloor(freeRooms, floor) == SelectSeq(freeRooms, LAMBDA r : r.floor = floor)

\* as keepBetter, with <= for <: the last of equals is kept
keepBetter_lastOfEquals(best, candidate) ==
    IF candidate = Null THEN best
    ELSE IF best = Null \/ candidate[1].totalTravelTime <= best[1].totalTravelTime
         THEN candidate
         ELSE best

\* if (!best || time < best.totalTravelTime) best = candidate
\* best is what the earlier iterations kept, candidate what comes later
keepBetter(best, candidate) ==
    IF candidate = Null THEN best
    ELSE IF best = Null \/ candidate[1].totalTravelTime < best[1].totalTravelTime
         THEN candidate
         ELSE best

\* the sliding window over one floor, from window start (0-based) onwards
RECURSIVE windowLoop(_, _, _)
windowLoop(sorted, n, start) ==
    IF start + n > Len(sorted) THEN Null
    ELSE LET candidate == SubSeq(sorted, start + 1, start + n)
             time == totalTravelTimeForRooms(candidate)
         IN keepBetter(Some([rooms |-> candidate, totalTravelTime |-> time]),
                       windowLoop(sorted, n, start + 1))

\* as floorLoop, skipping a floor that has exactly n free rooms
RECURSIVE floorLoop_skipsExact(_, _, _, _)
floorLoop_skipsExact(freeRooms, keys, k, n) ==
    IF k > Len(keys) THEN Null
    ELSE LET sorted == sort(roomsOfFloor(freeRooms, keys[k]), "byIndexOnFloor")
         IN IF Len(sorted) <= n
            THEN floorLoop_skipsExact(freeRooms, keys, k + 1, n)
            ELSE keepBetter(windowLoop(sorted, n, 0),
                            floorLoop_skipsExact(freeRooms, keys, k + 1, n))

\* for (const [floor, floorRooms] of roomsByFloor.entries()), from key k onwards
RECURSIVE floorLoop(_, _, _, _)
floorLoop(freeRooms, keys, k, n) ==
    IF k > Len(keys) THEN Null
    ELSE LET sorted == sort(roomsOfFloor(freeRooms, keys[k]), "byIndexOnFloor")
         IN IF Len(sorted) < n
            THEN floorLoop(freeRooms, keys, k + 1, n)
            ELSE keepBetter(windowLoop(sorted, n, 0),
                            floorLoop(freeRooms, keys, k + 1, n))

bestSingleFloorOf(freeRooms, n) == floorLoop(freeRooms, floorKeys(freeRooms), 1, n)

\* as candidatePoolOf, without the limit of 20
candidatePoolOf_unlimited(freeRooms) == sort(freeRooms, "byFloorThenIndex")

candidatePoolOf(freeRooms) ==
    LET minRooms == IF Len(freeRooms) < PoolLimit THEN Len(freeRooms) ELSE PoolLimit
    IN SubSeq(sort(freeRooms, "byFloorThenIndex"), 1, minRooms)

\* backtrack(startIndex, chosen): the best combination of the subtree; with
\* inLoop it is the for loop from index i (0-based) onwards
RECURSIVE backtrack(_, _, _, _, _)
backtrack(pool, n, i, chosen, inLoop) ==
    IF ~inLoop
    THEN IF Len(chosen) = n
         THEN Some([rooms |-> chosen, totalTravelTime |-> totalTravelTimeForRooms(chosen)])
         ELSE backtrack(pool, n, i, chosen, TRUE)
    ELSE IF i >= Len(pool) THEN Null
         ELSE keepBetter(backtrack(pool, n, i + 1, Append(chosen, pool[i + 1]), FALSE),
                         backtrack(pool, n, i + 1, chosen, TRUE))

bestMultiOf(freeRooms, n) == backtrack(candidatePoolOf(freeRooms), n, 0, <<>>, FALSE)

\* as allocateRooms, without the upper bound on the count
allocateRooms_noUpperBound(rs, n) ==
    IF n <= 0 THEN Null
    ELSE LET freeRooms == freeRoomsOf(rs)
         IN IF Len(freeRooms) < n THEN Null
            ELSE LET bestSingleFloor == bestSingleFloorOf(freeRooms, n)
                 IN IF bestSingleFloor # Null THEN bestSingleFloor
                    ELSE bestMultiOf(freeRooms, n)

allocateRooms(rs, n) ==
    IF n <= 0 \/ n > MaxCount THEN Null
    ELSE LET freeRooms == freeRoomsOf(rs)
         IN IF Len(freeRooms) < n THEN Null
            ELSE LET bestSingleFloor == bestSingleFloorOf(freeRooms, n)
                 IN IF bestSingleFloor # Null THEN bestSingleFloor
                    ELSE bestMultiOf(freeRooms, n)

\* as roomsAfterAllocate, had the pool been sorted in the caller's array
roomsAfterAllocate_sortedInPlace(rs, n) == sort(rs, "byFloorThenIndex")

\* the allocator only reads: freeRooms is a filter copy (line 76), the sorts
\* work on spread copies (lines 90, 112) and the result holds a slice / a
\* spread copy (lines 95, 125), so the caller's collection is what it was
roomsAfterAllocate(rs, n) == rs

\* ---------------------------------------------------------------- UI

InvalidCountMessage == "Please enter a valid room count between 1 and 5."
UnableMessage == "Unable to allocate the requested number of rooms with current availability."
RandomMessage == "Random occupancy applied."
ResetMessage == "Hotel has been reset to all rooms free."

\* value="1" of the #room-count input that every render writes
DefaultInput == <<"1">>

NaN == Null
Digits == <<"0", "1", "2", "3", "4", "5", "6", "7", "8", "9">>
IsDigit(c) == \E d \in 1..Len(Digits) : Digits[d] = c
DigitValue(c) == (CHOOSE d \in 1..Len(Digits) : Digits[d] = c) - 1

\* parseInt(s, 10): leading white space, an optional sign, then the longest
\* run of decimal digits; NaN when there is no digit
RECURSIVE digitsValue(_, _, _)
digitsValue(s, i, acc) ==
    IF i > Len(s) \/ ~IsDigit(s[i]) THEN acc
    ELSE digitsValue(s, i + 1, acc * 10 + DigitValue(s[i]))

RECURSIVE parseInt(_)
parseInt(s) ==
    IF s = <<>> THEN NaN
    ELSE IF s[1] = " " THEN parseInt(Tail(s))
    ELSE LET signed == s[1] \in {"-", "+"}
             body == IF signed THEN Tail(s) ELSE s
         IN IF body = <<>> \/ ~IsDigit(body[1]) THEN NaN
            ELSE IF s[1] = "-" THEN Some(0 - digitsValue(body, 1, 0))
                 ELSE Some(digitsValue(body, 1, 0))

\* as markBooked, matching a room by its position on the floor only
markBooked_byPosition(rs, res) ==
    [k \in 1..Len(rs) |->
        IF \E b \in 1..Len(res.rooms) : res.rooms[b].indexOnFloor = rs[k].indexOnFloor
        THEN [rs[k] EXCEPT !.status = "booked"]
        ELSE rs[k]]

\* rooms.map(r => result.rooms.some(br => br.id === r.id) ? {...r, status: 'booked'} : r)
markBooked(rs, res) ==
    [k \in 1..Len(rs) |->
        IF \E b \in 1..Len(res.rooms) : res.rooms[b].id = rs[k].id
        THEN [rs[k] EXCEPT !.status = "booked"]
        ELSE rs[k]]

\* rooms.map(r => ({...r, status: shouldBook ? 'booked' : 'free'})), shouldBook
\* being the set of indices for which Math.random() < 0.45
markRandom(rs, shouldBook) ==
    [k \in 1..Len(rs) |->
        [rs[k] EXCEPT !.status = IF k \in shouldBook THEN "booked" ELSE "free"]]

\* ---------------------------------------------------------------- bounds and inputs

MaxBookings == 2
MaxCountArg == 7
MaxWalkLen == 3

\* a pattern of free rooms: the rooms of the given floors whose position,
\* shifted by shift * floor along the corridor, is one of the given positions
patternFree(p) ==
    {k \in 1..TotalRooms :
        /\ buildHotelRooms[k].floor \in p.floors
        /\ ((buildHotelRooms[k].indexOnFloor + p.shift * buildHotelRooms[k].floor)
                % RoomsPerFloor) \in p.positions}

Pattern(f, ps, sh) == [floors |-> f, positions |-> ps, shift |-> sh]

\* what the user can have typed into #room-count
CountInputs ==
    { <<>>, <<"0">>, <<"1">>, <<"2">>, <<"3">>, <<"4">>, <<"5">>, <<"6">>,
      <<"-", "2">>, <<"2", ".", "7">> }

\* the outcomes of the random draw that are explored (the rooms left free)
RandomPatterns ==
    { Pattern({}, {}, 0),
      Pattern({3}, {0, 1, 2, 3}, 0),
      Pattern({5, 6}, {9}, 5),
      Pattern({1, 4, 7, 10}, {0}, 3),
      Pattern(1..10, {0}, 3),
      Pattern({2, 3, 4}, {2, 7}, 1) }

ShouldBookChoices == {(1..TotalRooms) \ patternFree(p) : p \in RandomPatterns}

\* the arguments the allocator is called with directly
CountArgs == -1..MaxCountArg

idsFree(ids) == {k \in 1..TotalRooms : buildHotelRooms[k].id \in ids}

\* the place of the room with layout index k in a collection of the given order
placeOf(order, k) ==
    IF order = "build" THEN k
    ELSE IF order = "reversed" THEN TotalRooms + 1 - k
    ELSE ((k * 37) % TotalRooms) + 1

\* a room collection: the layout in the given order, the rooms of free being
\* free and the others booked, or booked and blocked in turn
collection(free, fill, order) ==
    [i \in 1..TotalRooms |->
        LET k == CHOOSE j \in 1..TotalRooms : placeOf(order, j) = i
        IN [buildHotelRooms[k] EXCEPT !.status =
                IF k \in free THEN "free"
                ELSE IF fill = "mixed" /\ k % 3 = 0 THEN "blocked"
                ELSE "booked"]]

SmallPatterns ==
    { Pattern(f, ps, sh) :
        f \in {{3}, {5, 6}, {1, 4, 7, 10}},
        ps \in {{0}, {9}, {0, 1, 2, 3}, {2, 7}, {1, 4, 8}},
        sh \in {0, 3} }

WidePatterns ==
    { Pattern(1..6, {2, 7}, 3), Pattern(1..10, {0}, 3), Pattern(1..10, 0..9, 0) }

\* 510 and 601; 301-304; 24 free rooms, at most 3 a floor, the closest pair
\* on floor 8; one free room on each floor
Scenario510 == {510, 601}
Scenario301 == {301, 302, 303, 304}
ScenarioBeyondPool ==
    {f * 100 + i : f \in 1..7, i \in {1, 5, 10}} \cup {801, 802, 810}
ScenarioOnePerFloor == {101, 205, 309, 403, 507, 601, 705, 809, 903, 1007}

InputCollections ==
    {collection(patternFree(p), fill, order) :
        p \in SmallPatterns, fill \in {"booked", "mixed"},
        order \in {"build", "reversed", "scattered"}}
    \cup {collection(patternFree(p), "booked", "build") : p \in WidePatterns}
    \cup {collection(idsFree(ids), "booked", "build") :
            ids \in {Scenario510, Scenario301, ScenarioOnePerFloor}}
    \cup {collection(idsFree(ScenarioBeyondPool), "mixed", "build")}

\* the rooms the metric is measured on
SampleRooms == {buildHotelRooms[k] : k \in {1, 2, 10, 25, 97}}
Walks == UNION {[1..n -> SampleRooms] : n \in 0..MaxWalkLen}

\* ---------------------------------------------------------------- UI actions

Init ==
    /\ rooms = buildHotelRooms
    /\ lastBooking = Null
    /\ message = Null
    /\ roomCountInput = DefaultInput
    /\ bookings = 0
    /\ pc = "ui" /\ count = 0 /\ result = Null /\ result2 = Null
    /\ given = <<>> /\ walk = <<>> /\ walkTime = 0

harness == <<pc, count, result, result2, given, walk, walkTime>>

\* the user edits the number field
TypeCount(s) ==
    /\ pc = "ui"
    /\ roomCountInput' = s
    /\ UNCHANGED <<rooms, lastBooking, message, bookings>>
    /\ UNCHANGED harness

\* bookBtn.onclick
Book ==
    /\ pc = "ui"
    /\ LET value == parseInt(roomCountInput)
       IN IF value = NaN \/ value[1] < 1 \/ value[1] > 5
          THEN /\ rooms' = rooms
               /\ lastBooking' = Null
               /\ message' = Some(InvalidCountMessage)
               /\ UNCHANGED bookings
          ELSE \E res \in {allocateRooms(rooms, value[1])} :
                  IF res = Null
                  THEN /\ rooms' = rooms
                       /\ lastBooking' = Null
                       /\ message' = Some(UnableMessage)
                       /\ UNCHANGED bookings
                  ELSE /\ bookings < MaxBookings
                       /\ rooms' = markBooked(rooms, res[1])
                       /\ lastBooking' = res
                       /\ message' = Null
                       /\ bookings' = bookings + 1
    /\ roomCountInput' = DefaultInput
    /\ UNCHANGED harness

\* randomBtn.onclick
Random(shouldBook) ==
    /\ pc = "ui"
    /\ rooms' = markRandom(rooms, shouldBook)
    /\ lastBooking' = Null
    /\ message' = Some(RandomMessage)
    /\ roomCountInput' = DefaultInput
    /\ bookings' = 0
    /\ UNCHANGED harness

\* resetBtn.onclick
Reset ==
    /\ pc = "ui"
    /\ rooms' = buildHotelRooms
    /\ lastBooking' = Null
    /\ message' = Some(ResetMessage)
    /\ roomCountInput' = DefaultInput
    /\ bookings' = 0
    /\ UNCHANGED harness

Next ==
    \/ \E s \in CountInputs : TypeCount(s)
    \/ Book
    \/ \E shouldBook \in ShouldBookChoices : Random(shouldBook)
    \/ Reset

Spec == Init /\ [][Next]_vars

\* ---------------------------------------------------------------- direct calls

\* allocateRooms and totalTravelTimeForRooms called on their own: a room
\* collection and a count, or a sequence of rooms, then the call
InitCalls ==
    /\ lastBooking = Null
    /\ message = Null
    /\ roomCountInput = DefaultInput
    /\ bookings = 0
    /\ result = Null /\ result2 = Null /\ walkTime = 0
    /\ \/ /\ pc = "input"
          /\ rooms \in InputCollections
          /\ count \in CountArgs
          /\ given = rooms
          /\ walk = <<>>
       \/ /\ pc = "walk"
          /\ rooms = buildHotelRooms
          /\ count = 0
          /\ given = rooms
          /\ walk \in Walks

ui == <<lastBooking, message, roomCountInput, bookings>>

\* allocateRooms(rooms, count)
Call ==
    /\ pc = "input"
    /\ result' = allocateRooms(rooms, count)
    /\ rooms' = roomsAfterAllocate(rooms, count)
    /\ pc' = "called"
    /\ UNCHANGED <<count, result2, given, walk, walkTime>>
    /\ UNCHANGED ui

\* allocateRooms(rooms, count) once more, on what the first call left
Recall ==
    /\ pc = "called"
    /\ result2' = allocateRooms(rooms, count)
    /\ rooms' = roomsAfterAllocate(rooms, count)
    /\ pc' = "recalled"
    /\ UNCHANGED <<count, result, given, walk, walkTime>>
    /\ UNCHANGED ui

\* totalTravelTimeForRooms(walk)
Measure ==
    /\ pc = "walk"
    /\ walkTime' = totalTravelTimeForRooms(walk)
    /\ pc' = "measured"
    /\ UNCHANGED <<rooms, count, result, result2, given, walk>>
    /\ UNCHANGED ui

NextCalls == Call \/ Recall \/ Measure

SpecCalls == InitCalls /\ [][NextCalls]_vars

\* ---------------------------------------------------------------- properties

\* what the properties are stated with: sets of rooms, counted and measured
\* without the allocator's own loops
FreeOf(rs) == {rs[k] : k \in {j \in 1..Len(rs) : rs[j].status = "free"}}
FreeIds(rs) == {r.id : r \in FreeOf(rs)}
FreeOnFloor(rs, f) == {r \in FreeOf(rs) : r.floor = f}
FloorsOf(rs) == {rs[k].floor : k \in 1..Len(rs)}
SomeFloorHas(rs, n) == \E f \in FloorsOf(rs) : Cardinality(FreeOnFloor(rs, f)) >= n
RoomsIn(res) == {res.rooms[i] : i \in 1..Len(res.rooms)}
IdsOf(res) == [i \in 1..Len(res.rooms) |-> res.rooms[i].id]
ValidCount(n) == n \in 1..5
Called == pc \in {"called", "recalled"}

PairTime(a, b) ==
    Abs(a.floor - b.floor) * 2 + Abs(a.indexOnFloor - b.indexOnFloor) * 1

Least(S) == CHOOSE x \in S : \A y \in S : x <= y
Greatest(S) == CHOOSE x \in S : \A y \in S : x >= y

Pairs(n) == {q \in (1..n) \X (1..n) : q[1] < q[2]}

\* the minimum over the unordered pairs of a sequence of rooms
MinPairTime(rs) ==
    IF Len(rs) < 2 THEN 0
    ELSE Least({PairTime(rs[q[1]], rs[q[2]]) : q \in Pairs(Len(rs))})

\* the time between the two rooms of a sequence that are furthest apart
MaxPairTime(rs) ==
    IF Len(rs) < 2 THEN 0
    ELSE Greatest({PairTime(rs[q[1]], rs[q[2]]) : q \in Pairs(Len(rs))})

\* the same minimum for a set of distinct rooms
MinPairTimeOfSet(S) ==
    IF Cardinality(S) < 2 THEN 0
    ELSE Least({PairTime(q[1], q[2]) : q \in {x \in S \X S : x[1] # x[2]}})

InHotelOrder(rs) == \A k \in 1..Len(rs) : rs[k].id = buildHotelRooms[k].id
OthersBooked(rs) == \A k \in 1..Len(rs) : rs[k].status \in {"free", "booked"}

\* C1: with a count in 1..5 and at least count free rooms, allocateRooms
\* returns a result of exactly count rooms, pairwise distinct by id, each a
\* room of the input whose status is free
C1_AllocatesFreeRooms ==
    (Called /\ ValidCount(count) /\ Cardinality(FreeOf(given)) >= count) =>
        /\ result # Null
        /\ Len(result[1].rooms) = count
        /\ \A i, j \in 1..Len(result[1].rooms) :
                i # j => result[1].rooms[i].id # result[1].rooms[j].id
        /\ \A r \in RoomsIn(result[1]) : r \in FreeOf(given)

\* more than 20 free rooms, no floor with count of them, blocked rooms around
C1_Witness ==
    /\ Called /\ ValidCount(count)
    /\ Cardinality(FreeOf(given)) > 20
    /\ ~SomeFloorHas(given, count)
    /\ \E k \in 1..Len(given) : given[k].status = "blocked"
    /\ result # Null

\* C2: allocateRooms returns null when count <= 0, when count > 5 and when
\* fewer than count rooms are free
C2_NoResult ==
    (Called /\ (count <= 0 \/ count > 5 \/ Cardinality(FreeOf(given)) < count)) =>
        result = Null

\* exactly count - 1 rooms are free
C2_Witness ==
    /\ Called /\ ValidCount(count)
    /\ Cardinality(FreeOf(given)) = count - 1
    /\ result = Null

\* C3: when some floor has at least count free rooms, all rooms of the result
\* are on one floor
C3_SingleFloorFirst ==
    (Called /\ ValidCount(count) /\ SomeFloorHas(given, count)) =>
        /\ result # Null
        /\ \A a, b \in RoomsIn(result[1]) : a.floor = b.floor

\* a pair of free rooms on two floors is closer than the rooms returned
C3_Witness ==
    /\ Called /\ count = 2 /\ SomeFloorHas(given, count)
    /\ result # Null
    /\ \E a, b \in FreeOf(given) :
            a.floor # b.floor /\ PairTime(a, b) < result[1].totalTravelTime

\* the windows of n rooms adjacent in a floor's free rooms taken by position
WindowsOf(rs, f, n) ==
    {W \in SUBSET FreeOnFloor(rs, f) :
        /\ Cardinality(W) = n
        /\ \A r \in FreeOnFloor(rs, f) \ W :
              ~ \E a, b \in W : a.indexOnFloor < r.indexOnFloor
                                /\ r.indexOnFloor < b.indexOnFloor}
AllWindows(rs, n) == UNION {WindowsOf(rs, f, n) : f \in FloorsOf(rs)}
FloorOfSet(W) == (CHOOSE r \in W : TRUE).floor
StartOf(W) == Least({r.indexOnFloor : r \in W})
\* where the first free room of floor f stands in the collection
FirstMet(rs, f) == Least({k \in 1..Len(rs) : rs[k].status = "free" /\ rs[k].floor = f})
EvaluatedBefore(rs, V, W) ==
    \/ FirstMet(rs, FloorOfSet(V)) < FirstMet(rs, FloorOfSet(W))
    \/ FloorOfSet(V) = FloorOfSet(W) /\ StartOf(V) < StartOf(W)

\* C5: in Phase 1 the result is the window of least setTravelTime over all
\* windows of all floors, the first evaluated one among equals (floors as
\* first met among the free rooms of the collection, windows left to right);
\* with 301-304 free and count 2 it is 301, 302 with totalTravelTime 1
C5_BestWindow ==
    (Called /\ ValidCount(count) /\ SomeFloorHas(given, count)) =>
        /\ result # Null
        /\ RoomsIn(result[1]) \in AllWindows(given, count)
        /\ \A i, j \in 1..Len(result[1].rooms) :
                i < j => result[1].rooms[i].indexOnFloor < result[1].rooms[j].indexOnFloor
        /\ \A W \in AllWindows(given, count) :
              \/ W = RoomsIn(result[1])
              \/ MinPairTimeOfSet(RoomsIn(result[1])) < MinPairTimeOfSet(W)
              \/ /\ MinPairTimeOfSet(RoomsIn(result[1])) = MinPairTimeOfSet(W)
                 /\ EvaluatedBefore(given, RoomsIn(result[1]), W)
        /\ (FreeIds(given) = Scenario301 /\ count = 2) =>
              IdsOf(result[1]) = <<301, 302>> /\ result[1].totalTravelTime = 1

\* 301-304 are the free rooms and two are asked for
C5_Witness ==
    /\ Called /\ count = 2
    /\ FreeIds(given) = Scenario301
    /\ result # Null /\ IdsOf(result[1]) = <<301, 302>>

\* C6 as stated: with 510 and 601 the only free rooms of the hotel,
\* allocateRooms(rooms, 1) returns room 601 with totalTravelTime 0
C6_Returns601 ==
    (Called /\ count = 1 /\ InHotelOrder(given) /\ OthersBooked(given)
        /\ FreeIds(given) = Scenario510) =>
        result # Null /\ IdsOf(result[1]) = <<601>> /\ result[1].totalTravelTime = 0

\* C6 amended: in that state allocateRooms(rooms, 1) returns room 510, the
\* window evaluated first, with totalTravelTime 0
C6_Returns510 ==
    (Called /\ count = 1 /\ InHotelOrder(given) /\ OthersBooked(given)
        /\ FreeIds(given) = Scenario510) =>
        result # Null /\ IdsOf(result[1]) = <<510>> /\ result[1].totalTravelTime = 0

C6_Witness ==
    /\ Called /\ count = 1 /\ InHotelOrder(given) /\ OthersBooked(given)
    /\ FreeIds(given) = Scenario510
    /\ result # Null

Before(q, r) ==
    q.floor < r.floor \/ (q.floor = r.floor /\ q.indexOnFloor < r.indexOnFloor)
PoolRank(rs, r) == 1 + Cardinality({q \in FreeOf(rs) : Before(q, r)})
\* the first 20 free rooms in that order, as a sequence
PoolOf(rs) ==
    LET size == IF Cardinality(FreeOf(rs)) < 20 THEN Cardinality(FreeOf(rs)) ELSE 20
    IN SubSeq([k \in 1..size |-> CHOOSE r \in FreeOf(rs) : PoolRank(rs, r) = k], 1, size)

\* the sets of c indices out of 1..m
RECURSIVE Combinations(_, _)
Combinations(m, c) ==
    IF c = 0 THEN {{}}
    ELSE IF m < c THEN {}
    ELSE Combinations(m - 1, c) \cup {S \cup {m} : S \in Combinations(m - 1, c - 1)}

CostAt(pool, S) == Least({PairTime(pool[q[1]], pool[q[2]]) : q \in {x \in S \X S : x[1] < x[2]}})

\* S comes before T when the combinations are enumerated depth first with
\* increasing indices
EnumeratedBefore(S, T) == Least((S \ T) \cup (T \ S)) \in S

Phase2Applies == count \in 2..5 /\ Cardinality(FreeOf(given)) >= count
                 /\ ~SomeFloorHas(given, count)

C9_WitnessOnePerFloor ==
    /\ pc = "called" /\ count = 2
    /\ FreeIds(given) = ScenarioOnePerFloor
    /\ result # Null /\ IdsOf(result[1]) = <<101, 205>>

FreeCount(rs) == Cardinality({k \in 1..Len(rs) : rs[k].status = "free"})
RequestedCount == parseInt(roomCountInput)
RequestIsValid == RequestedCount # NaN /\ RequestedCount[1] >= 1 /\ RequestedCount[1] <= 5
\* a step that is neither the random occupancy nor the reset
NoBulkChange == message' \notin {Some(RandomMessage), Some(ResetMessage)}
BookedNow == lastBooking' # Null /\ lastBooking' # lastBooking

BookStep ==
    /\ BookedNow =>
          /\ RequestIsValid
          /\ Len(lastBooking'[1].rooms) = RequestedCount[1]
          /\ Len(rooms') = Len(rooms)
          /\ \A B \in {{k \in 1..Len(rooms) :
                          \E i \in 1..Len(lastBooking'[1].rooms) :
                              lastBooking'[1].rooms[i].id = rooms[k].id}} :
                /\ Cardinality(B) = RequestedCount[1]
                /\ \A k \in B : /\ rooms[k].status = "free"
                                /\ rooms'[k] = [rooms[k] EXCEPT !.status = "booked"]
                /\ \A k \in (1..Len(rooms)) \ B : rooms'[k] = rooms[k]
          /\ FreeCount(rooms') = FreeCount(rooms) - RequestedCount[1]
    /\ rooms' = rooms \/ ~(NoBulkChange /\ ~BookedNow)
    /\ rooms' = rooms \/ ~(NoBulkChange /\ ~RequestIsValid)
    /\ rooms' = rooms \/ ~(NoBulkChange /\ RequestIsValid
                                /\ allocateRooms(rooms, RequestedCount[1]) = Null)

\* C4: from the all-free hotel, under any sequence of book, random occupancy
\* and reset, a successful book of c rooms turns exactly the c returned rooms
\* from free to booked and leaves every other room as it was, and a book with
\* an invalid count or without a result leaves every room as it was
C4_BookFrame == [][BookStep]_vars

\* a second booking has left the rooms of the first one booked
C4_Witness ==
    /\ lastBooking # Null /\ bookings = 2
    /\ Len(lastBooking[1].rooms) >= 2
    /\ \E k \in 1..Len(rooms) :
          /\ rooms[k].status = "booked"
          /\ \A i \in 1..Len(lastBooking[1].rooms) : lastBooking[1].rooms[i].id # rooms[k].id
    /\ \A i \in 1..Len(lastBooking[1].rooms) :
          \E k \in 1..Len(rooms) :
              rooms[k].id = lastBooking[1].rooms[i].id /\ rooms[k].status = "booked"

\* C7: the totalTravelTime shown for a booking of 2 to 5 rooms is the time
\* between the two rooms of the booking that are furthest apart
C7_FurthestRooms ==
    (lastBooking # Null /\ Len(lastBooking[1].rooms) \in 2..5) =>
        lastBooking[1].totalTravelTime = MaxPairTime(lastBooking[1].rooms)

====
